---- MODULE Spec2Model ----
(***************************************************************************)
(* A model of pyOpenFEMA's OpenFEMA class (src/pyOpenFEMA/OpenFEMA.py):   *)
(* the constructor, list_datasets, dataset_info, read_dataset and the two *)
(* dtype helpers.  Text on which the code does substring tests, sorting   *)
(* or capitalisation is a sequence of one-character strings; text that is *)
(* only compared for equality is a TLA+ string.  An optional Python value *)
(* is a sequence of length 0 (None / attribute not set) or 1.             *)
(***************************************************************************)
EXTENDS Integers, Sequences, FiniteSets, TLC

VARIABLES state, openapi_metadata, url, df_metadata_dataset, remote, caller, last

vars == <<state, openapi_metadata, url, df_metadata_dataset, remote, caller, last>>

None == <<>>
Some(x) == <<x>>

(***************************************************************************)
(* Bounds of the model.                                                    *)
(***************************************************************************)
MaxRows == 4
MaxSchemaRows == 2
MaxSchemas == 2
MaxFormats == 2
MaxServers == 2
MaxPaths == 2

(***************************************************************************)
(* Python str operations, on sequences of characters.                      *)
(***************************************************************************)
\* The characters the model uses, in code-point order.
Alphabet ==
  <<"-", "/", "0", "1", "2", "3", "4", "5", "6", "7", "8", "9",
    "A", "B", "C", "D", "E", "F", "G", "H", "I", "J", "K", "L", "M",
    "N", "O", "P", "Q", "R", "S", "T", "U", "V", "W", "X", "Y", "Z",
    "a", "b", "c", "d", "e", "f", "g", "h", "i", "j", "k", "l", "m",
    "n", "o", "p", "q", "r", "s", "t", "u", "v", "w", "x", "y", "z">>

OrdOf ==
  [c \in {Alphabet[i] : i \in DOMAIN Alphabet} |->
     CHOOSE i \in DOMAIN Alphabet : Alphabet[i] = c]

\* ord(c), counted from the first character of Alphabet.
Ord(c) == OrdOf[c]

\* Python's comparison of two str values: a < b.
RECURSIVE StrLess(_, _)
StrLess(a, b) ==
  IF b = <<>> THEN FALSE
  ELSE IF a = <<>> THEN TRUE
  ELSE IF Head(a) = Head(b) THEN StrLess(Tail(a), Tail(b))
  ELSE Ord(Head(a)) < Ord(Head(b))

\* pat in s (and Series.str.contains(pat) for a pattern without regex metacharacters).
StrContains(s, pat) ==
  \E i \in 1..(Len(s) - Len(pat) + 1) : SubSeq(s, i, i + Len(pat) - 1) = pat

UpperChar(c) ==
  IF Ord(c) >= Ord("a") /\ Ord(c) <= Ord("z")
  THEN Alphabet[Ord(c) - (Ord("a") - Ord("A"))] ELSE c

LowerChar(c) ==
  IF Ord(c) >= Ord("A") /\ Ord(c) <= Ord("Z")
  THEN Alphabet[Ord(c) + (Ord("a") - Ord("A"))] ELSE c

\* str.capitalize(): first character upper-cased, the rest lower-cased.
StrCapitalize(s) ==
  IF s = <<>> THEN s
  ELSE <<UpperChar(Head(s))>> \o [i \in 1..(Len(s) - 1) |-> LowerChar(s[i + 1])]

\* f"{n}" for a non-negative int.
RECURSIVE IntToStr(_)
IntToStr(n) ==
  IF n < 10 THEN <<Alphabet[Ord("0") + n]>>
  ELSE IntToStr(n \div 10) \o <<Alphabet[Ord("0") + (n % 10)]>>

(***************************************************************************)
(* Results of a call: the exception raised ("none" when it returned), a    *)
(* tag for the message, and the returned value.                            *)
(***************************************************************************)
Ok(v) == [err |-> "none", msg |-> "", value |-> Some(v)]
Raise(e, m) == [err |-> e, msg |-> m, value |-> None]

(***************************************************************************)
(* Text constants of the source.                                           *)
(***************************************************************************)
L_name == <<"n", "a", "m", "e">>
P_DataSet == <<"D", "a", "t", "a", "S", "e", "t">>
P_DataSets == <<"D", "a", "t", "a", "S", "e", "t", "s">>
P_date == <<"d", "a", "t", "e">>
P_int == <<"i", "n", "t">>
T_string == <<"s", "t", "r", "i", "n", "g">>
T_datetime64 == <<"d", "a", "t", "e", "t", "i", "m", "e", "6", "4">>
MetadataThreshold == 3
ValidMetadataFormats == {"json", "yaml"}

(***************************************************************************)
(* _validate_metadata_dataset_list and list_datasets.  A catalog table is  *)
(* [columns: the column labels, rows: the records]; a record's name field  *)
(* is what the 'name' column holds.                                        *)
(***************************************************************************)
_validate_metadata_dataset_list(df) ==
  IF ~(\E i \in DOMAIN df.columns : StrContains(df.columns[i], L_name))
  THEN Raise("NotImplementedError", "name column changed")
  ELSE Ok(TRUE)

\* drop_duplicates left out: the column as it is.
keep_duplicates(s) == s

\* Series.drop_duplicates(): every value at its first occurrence, order kept.
drop_duplicates(s) ==
  LET First(i) == \A j \in 1..(i - 1) : s[j] # s[i]
      F[i \in 0..Len(s)] ==
        IF i = 0 THEN <<>>
        ELSE IF First(i) THEN Append(F[i - 1], s[i]) ELSE F[i - 1]
  IN F[Len(s)]

\* Insertion of x into an ascending sequence.
RECURSIVE SortedInsert(_, _)
SortedInsert(x, s) ==
  IF s = <<>> THEN <<x>>
  ELSE IF StrLess(Head(s), x) THEN <<Head(s)>> \o SortedInsert(x, Tail(s))
  ELSE <<x>> \o s

\* sort_values left out: the values in the order of the column.
unsorted_values(s) == s

\* Series.sort_values(): ascending, by Python's str comparison.
RECURSIVE sort_values(_)
sort_values(s) ==
  IF s = <<>> THEN <<>> ELSE SortedInsert(Head(s), sort_values(Tail(s)))

\* dataset_names.str.contains('DataSet')
IsMetadataName(n) == StrContains(n, P_DataSet)

IsPlainName(n) == ~IsMetadataName(n)

\* self.df_metadata_dataset['name']
NameColumn(df) == [i \in DOMAIN df.rows |-> df.rows[i].name]

HasNameColumn(df) == \E i \in DOMAIN df.columns : df.columns[i] = L_name

list_datasets(df) ==
  LET v == _validate_metadata_dataset_list(df)
  IN IF v.err # "none" THEN [v EXCEPT !.value = None] @@ [warning |-> None]
     ELSE IF ~HasNameColumn(df) THEN Raise("KeyError", "name") @@ [warning |-> None]
     ELSE
       LET dataset_names == drop_duplicates(NameColumn(df))
           metadata_datasets == SelectSeq(dataset_names, IsMetadataName)
       IN IF Len(metadata_datasets) > MetadataThreshold
          THEN Ok(sort_values(dataset_names)) @@ [warning |-> Some(metadata_datasets)]
          ELSE Ok(sort_values(SelectSeq(dataset_names, IsPlainName)))
               @@ [warning |-> None]

(***************************************************************************)
(* _check_if_dataset_exists, _get_dataset_dtype and dataset_info.  The     *)
(* metadata document is [servers, paths, schemas]: schemas is the dict     *)
(* components.schemas in its order, each entry [key, properties], each     *)
(* property [column, type, format]; a dict holds no key twice.             *)
(***************************************************************************)
\* pd.Series(xs).isin([x]).sum()
IsinCount(xs, x) == Cardinality({i \in DOMAIN xs : xs[i] = x})

\* The check made against the name column instead of against list_datasets().
_check_if_dataset_in_column(df, dataset) ==
  LET v == _validate_metadata_dataset_list(df)
  IN IF v.err # "none" THEN v
     ELSE IF ~HasNameColumn(df) THEN Raise("KeyError", "name")
     ELSE IF IsinCount(NameColumn(df), dataset) = 0
     THEN Raise("ValueError", "dataset not found")
     ELSE Ok(TRUE)

_check_if_dataset_exists(df, dataset) ==
  LET v == _validate_metadata_dataset_list(df)
      l == list_datasets(df)
  IN IF v.err # "none" THEN v
     ELSE IF l.err # "none" THEN Raise(l.err, l.msg)
     ELSE IF IsinCount(l.value[1], dataset) # 1
     THEN Raise("ValueError", "dataset not found")
     ELSE Ok(TRUE)

\* f"v{version}-{dataset}"
dataset_w_version(dataset, version) == <<"v">> \o IntToStr(version) \o <<"-">> \o dataset

\* value['type'] taken for value['format'].
PropertyType(p) == p.type

\* value['format'] of one property of a schema
PropertyFormat(p) == p.format

_get_dataset_dtype(md, dataset, version) ==
  LET Matches(e) == dataset_w_version(dataset, version) = e.key
      dataset_openapi_name == SelectSeq(md.schemas, Matches)
  IN IF Len(dataset_openapi_name) # 1
     THEN Raise("NotImplementedError", "schema options")
     ELSE LET column_metadata == dataset_openapi_name[1].properties
          IN Ok([i \in DOMAIN column_metadata |->
                   [column |-> column_metadata[i].column,
                    dtype |-> PropertyFormat(column_metadata[i])]])

\* The last matching record taken for the first.
CatalogRecordLast(df, dataset) ==
  LET Named(r) == r.name = dataset
      m == SelectSeq(df.rows, Named)
  IN m[Len(m)]

\* self.df_metadata_dataset[dataset_names == dataset].to_dict(orient='records')[0]
CatalogRecord(df, dataset) ==
  LET Named(r) == r.name = dataset
  IN SelectSeq(df.rows, Named)[1]

dataset_info(md, df, dataset) ==
  LET v == _validate_metadata_dataset_list(df)
      c == _check_if_dataset_exists(df, dataset)
  IN IF v.err # "none" THEN v
     ELSE IF c.err # "none" THEN c
     ELSE LET dataset_dict == CatalogRecord(df, dataset)
              column_dtypes == _get_dataset_dtype(md, dataset, dataset_dict.version)
          IN IF column_dtypes.err # "none" THEN column_dtypes
             ELSE Ok(dataset_dict @@ [columns |-> column_dtypes.value[1]])

(***************************************************************************)
(* _set_dataset_dtype.  A table is a sequence of columns                   *)
(* [column, dtype, value]: its label, its dtype and the literal it holds.  *)
(* A type map is a sequence of [column, dtype] in dict order.              *)
(***************************************************************************)
T_Int32 == <<"I", "n", "t", "3", "2">>
T_Int64 == <<"I", "n", "t", "6", "4">>
T_double == <<"d", "o", "u", "b", "l", "e">>
T_object == <<"o", "b", "j", "e", "c", "t">>

\* The names of the nullable integer dtypes pandas has for the declared types of the model.
NullableIntegerDtypes ==
  {T_Int32, T_Int64, <<"U", "I", "n", "t", "3", "2">>, <<"U", "I", "n", "t", "6", "4">>}

\* The dtype strings DataFrame.astype understands, among those the model can ask for.
KnownDtypes == NullableIntegerDtypes \cup {T_string, T_double, T_object}

\* Whether a literal can be cast to a dtype / parsed by pd.to_datetime.
Castable(value, target) ==
  IF target \in NullableIntegerDtypes \cup {T_double} THEN value = "7"
  ELSE target \in {T_string, T_object}

DateParsable(value) == value = "2020-01-01"

HasColumn(table, c) == \E i \in DOMAIN table : table[i].column = c

MapHas(map, c) == \E i \in DOMAIN map : map[i].column = c

MapGet(map, c) == map[CHOOSE i \in DOMAIN map : map[i].column = c].dtype

\* df_dataset.astype(mapping)
astype(table, mapping) ==
  IF \E i \in DOMAIN mapping : ~HasColumn(table, mapping[i].column)
  THEN Raise("KeyError", "astype column")
  ELSE IF \E i \in DOMAIN table :
            MapHas(mapping, table[i].column)
            /\ MapGet(mapping, table[i].column) \notin KnownDtypes
  THEN Raise("TypeError", "dtype not understood")
  ELSE IF \E i \in DOMAIN table :
            MapHas(mapping, table[i].column)
            /\ ~Castable(table[i].value, MapGet(mapping, table[i].column))
  THEN Raise("ValueError", "cast")
  ELSE Ok([i \in DOMAIN table |->
             IF MapHas(mapping, table[i].column)
             THEN [table[i] EXCEPT !.dtype = MapGet(mapping, table[i].column)]
             ELSE table[i]])

\* df_dataset[c] = pd.to_datetime(df_dataset[c]) for every c of datetime_columns, in order
to_datetime_all(table, datetime_columns) ==
  IF \E k \in DOMAIN datetime_columns : ~HasColumn(table, datetime_columns[k])
  THEN Raise("KeyError", "datetime column")
  ELSE IF \E i \in DOMAIN table :
            (\E k \in DOMAIN datetime_columns : datetime_columns[k] = table[i].column)
            /\ ~DateParsable(table[i].value)
  THEN Raise("ValueError", "date parse")
  ELSE Ok([i \in DOMAIN table |->
             IF \E k \in DOMAIN datetime_columns : datetime_columns[k] = table[i].column
             THEN [table[i] EXCEPT !.dtype = T_datetime64]
             ELSE table[i]])

IsDateEntry(e) == StrContains(e.dtype, P_date)

IsNonDateEntry(e) == ~StrContains(e.dtype, P_date)

\* One entry of non_datetime_columns (lines 351-354) / of the rewritten map (365-368).
CastEntry(e) ==
  IF StrContains(e.dtype, P_int) THEN [e EXCEPT !.dtype = StrCapitalize(e.dtype)] ELSE e

RewriteEntry(e) ==
  IF StrContains(e.dtype, P_date) THEN [e EXCEPT !.dtype = T_string]
  ELSE IF StrContains(e.dtype, P_int) THEN [e EXCEPT !.dtype = StrCapitalize(e.dtype)]
  ELSE e

\* The result carries, beside the table, the caller's dict as the call leaves it
\* (column_dtypes), and what the call asked the table engine for (casts, datetimes).
_set_dataset_dtype(df_dataset, column_dtypes, parse_dates) ==
  IF parse_dates
  THEN LET nd == SelectSeq(column_dtypes, IsNonDateEntry)
           non_datetime_columns == [i \in DOMAIN nd |-> CastEntry(nd[i])]
           dd == SelectSeq(column_dtypes, IsDateEntry)
           datetime_columns == [i \in DOMAIN dd |-> dd[i].column]
           a == astype(df_dataset, non_datetime_columns)
           r == IF a.err # "none" THEN a ELSE to_datetime_all(a.value[1], datetime_columns)
       IN r @@ [column_dtypes |-> column_dtypes,
                casts |-> non_datetime_columns, datetimes |-> datetime_columns]
  ELSE LET rewritten == [i \in DOMAIN column_dtypes |-> RewriteEntry(column_dtypes[i])]
       IN astype(df_dataset, rewritten)
          @@ [column_dtypes |-> rewritten, casts |-> rewritten, datetimes |-> <<>>]

(***************************************************************************)
(* read_dataset.  filters, sort_by, top and skip only reach generate_url   *)
(* and are left at None.                                                   *)
(***************************************************************************)
\* json.loads(format_str)['format'] of one entry of the 'distribution' field
DistributionFormat(entry) == entry.format

SeqHas(xs, x) == \E i \in DOMAIN xs : xs[i] = x

\* The selection with parquet tried before geojson.
SelectFormatParquetFirst(file_formats, file_format) ==
  IF file_format = None
  THEN IF SeqHas(file_formats, "parquet") THEN Some("parquet")
       ELSE IF SeqHas(file_formats, "geojson") THEN Some("geojson")
       ELSE IF SeqHas(file_formats, "csv") THEN Some("csv")
       ELSE IF SeqHas(file_formats, "jsona") THEN Some("jsona")
       ELSE file_format
  ELSE file_format

\* Lines 244-252: the format read_dataset goes on with.
SelectFormat(file_formats, file_format) ==
  IF file_format = None
  THEN IF SeqHas(file_formats, "geojson") THEN Some("geojson")
       ELSE IF SeqHas(file_formats, "parquet") THEN Some("parquet")
       ELSE IF SeqHas(file_formats, "csv") THEN Some("csv")
       ELSE IF SeqHas(file_formats, "jsona") THEN Some("jsona")
       ELSE file_format
  ELSE file_format

\* pyOpenFEMA.api_url_generator.generate_url: a total function of its arguments.
generate_url(web_service_url, column_dtypes, file_format, columns) ==
  [base |-> web_service_url, file_format |-> file_format, select |-> columns]

\* What the dataset's endpoint answers: the table, cut to the selected columns.
RemoteTable(table, request) ==
  IF request.select = None \/ request.select[1] = <<>> THEN table
  ELSE LET Selected(c) == SeqHas(request.select[1], c.column)
       IN SelectSeq(table, Selected)

\* The dispatch ending in a reader instead of in the raise.
HasReaderAlways(file_format) == TRUE

\* Lines 259-268: whether a reader exists for the format.
HasReader(file_format) ==
  file_format = Some("geojson") \/ file_format = Some("parquet")
  \/ file_format = Some("csv") \/ file_format = Some("jsona")

\* Lines 272-273: the type map cut to the requested columns; "if columns" is false
\* for None and for the empty list.
RestrictDtypes(column_dtypes, columns) ==
  IF columns = None \/ columns[1] = <<>> THEN column_dtypes
  ELSE LET Requested(e) == SeqHas(columns[1], e.column)
       IN SelectSeq(column_dtypes, Requested)

\* The result carries the stage the call ended in, the format it resolved, the
\* local type map as the call left it and the schema key it was read from.
read_dataset(md, df, table, dataset, columns, parse_dates, file_format) ==
  LET info == dataset_info(md, df, dataset)
      Early(r, stage, fmt) ==
        [err |-> r.err, msg |-> r.msg, value |-> None, stage |-> stage,
         file_format |-> fmt, column_dtypes |-> None, schema_key |-> None]
  IN IF info.err # "none" THEN Early(info, "lookup", file_format)
     ELSE
       LET dataset_dict == info.value[1]
           file_formats == [i \in DOMAIN dataset_dict.distribution |->
                              DistributionFormat(dataset_dict.distribution[i])]
           web_service_url == dataset_dict.webService
           dtypes == _get_dataset_dtype(md, dataset, dataset_dict.version)
       IN IF dtypes.err # "none" THEN Early(dtypes, "lookup", file_format)
          ELSE
            LET chosen == SelectFormat(file_formats, file_format)
                request == generate_url(web_service_url, dtypes.value[1], chosen, columns)
            IN IF ~HasReader(chosen)
               THEN Early(Raise("ValueError", "format not supported"), "read", chosen)
               ELSE
                 LET df_dataset == RemoteTable(table, request)
                     column_dtypes == RestrictDtypes(dtypes.value[1], columns)
                     r == _set_dataset_dtype(df_dataset, column_dtypes, parse_dates)
                 IN [err |-> r.err, msg |-> r.msg, value |-> r.value, stage |-> "coerce",
                     file_format |-> chosen, column_dtypes |-> Some(r.column_dtypes),
                     schema_key |-> Some(dataset_w_version(dataset, dataset_dict.version))]

\* The rewrite reaching the document: were the type map the document's own mapping,
\* the 'format' of every rewritten column of the schema would change with it.
MetadataAfterReadShared(md, res) ==
  IF res.column_dtypes = None THEN md
  ELSE [md EXCEPT !.schemas =
          [i \in DOMAIN md.schemas |->
             IF md.schemas[i].key # res.schema_key[1] THEN md.schemas[i]
             ELSE [md.schemas[i] EXCEPT !.properties =
                     [k \in DOMAIN md.schemas[i].properties |->
                        LET p == md.schemas[i].properties[k]
                        IN IF MapHas(res.column_dtypes[1], p.column)
                           THEN [p EXCEPT !.format = MapGet(res.column_dtypes[1], p.column)]
                           ELSE p]]]]

\* The dict _set_dataset_dtype rewrites when parse_dates is false is the one the
\* comprehensions of lines 314 and 273 built, an object of its own: the writes of
\* lines 366 and 368 leave the document's 'format' entries as they are.
MetadataAfterRead(md, res) == md

(***************************************************************************)
(* The constructor.                                                        *)
(***************************************************************************)
IsProduction(server_dict) == server_dict.description = "Production"

IsCatalogPath(key) == StrContains(key, P_DataSets)

\* The constructor's outcome: the exception, and the attributes it has set by then.
Constructor(rem, file_format) ==
  LET NoSelf == [openapi_metadata |-> None, url |-> None, df_metadata_dataset |-> None]
      production == SelectSeq(rem.doc.servers, IsProduction)
      metadata_dataset_key == SelectSeq(rem.doc.paths, IsCatalogPath)
      WithDoc == [NoSelf EXCEPT !.openapi_metadata = Some(rem.doc)]
      WithUrl == [WithDoc EXCEPT !.url = Some(production[1].url)]
  IN IF file_format \notin ValidMetadataFormats
     THEN Raise("ValueError", "metadata format") @@ [self |-> NoSelf]
     ELSE IF ~rem.endpoint_ok
     THEN Raise("FileNotFoundError", "endpoint") @@ [self |-> NoSelf]
     ELSE IF production = <<>>
     THEN Raise("IndexError", "list index out of range") @@ [self |-> WithDoc]
     ELSE IF Len(metadata_dataset_key) # 1
     THEN Raise("NotImplementedError", "catalog path options") @@ [self |-> WithUrl]
     ELSE IF rem.catalog = None
     THEN Raise("NotImplementedError", "catalog parquet") @@ [self |-> WithUrl]
     ELSE Ok(TRUE) @@ [self |-> [WithUrl EXCEPT !.df_metadata_dataset = rem.catalog]]

(***************************************************************************)
(* The actions.  remote is what the network serves (the metadata document, *)
(* the catalog parquet, the table of a dataset's endpoint) and caller the  *)
(* arguments the calling program passes; neither changes.  state is the    *)
(* object's lifecycle; the three attributes are None until assigned.       *)
(***************************************************************************)
Call(op, args, res) == [op |-> op, args |-> args, res |-> res]

Construct ==
  /\ state = "Uninitialized"
  /\ \E file_format \in caller.metadata_formats :
       LET r == Constructor(remote, file_format)
       IN /\ state' = IF r.err = "none" THEN "Ready" ELSE "Failed"
          /\ openapi_metadata' = r.self.openapi_metadata
          /\ url' = r.self.url
          /\ df_metadata_dataset' = r.self.df_metadata_dataset
          /\ last' = Call("__init__", <<file_format>>, [err |-> r.err, msg |-> r.msg])
  /\ UNCHANGED <<remote, caller>>

ListDatasets ==
  /\ state = "Ready"
  /\ last' = Call("list_datasets", <<>>, list_datasets(df_metadata_dataset[1]))
  /\ UNCHANGED <<state, openapi_metadata, url, df_metadata_dataset, remote, caller>>

DatasetInfo ==
  /\ state = "Ready"
  /\ \E dataset \in caller.datasets :
       last' = Call("dataset_info", <<dataset>>,
                    dataset_info(openapi_metadata[1], df_metadata_dataset[1], dataset))
  /\ UNCHANGED <<state, openapi_metadata, url, df_metadata_dataset, remote, caller>>

GetDatasetDtype ==
  /\ state = "Ready"
  /\ \E dataset \in caller.datasets, version \in caller.versions :
       last' = Call("_get_dataset_dtype", <<dataset, version>>,
                    _get_dataset_dtype(openapi_metadata[1], dataset, version))
  /\ UNCHANGED <<state, openapi_metadata, url, df_metadata_dataset, remote, caller>>

SetDatasetDtype ==
  /\ state = "Ready"
  /\ \E column_dtypes \in caller.type_maps, parse_dates \in caller.parse_dates :
       last' = Call("_set_dataset_dtype", <<remote.table, column_dtypes, parse_dates>>,
                    _set_dataset_dtype(remote.table, column_dtypes, parse_dates))
  /\ UNCHANGED <<state, openapi_metadata, url, df_metadata_dataset, remote, caller>>

ReadDataset ==
  /\ state = "Ready"
  /\ \E dataset \in caller.datasets, columns \in caller.columns,
        parse_dates \in caller.parse_dates, file_format \in caller.file_formats :
       LET r == read_dataset(openapi_metadata[1], df_metadata_dataset[1], remote.table,
                             dataset, columns, parse_dates, file_format)
       IN /\ last' = Call("read_dataset", <<dataset, columns, parse_dates, file_format>>, r)
          /\ openapi_metadata' = Some(MetadataAfterRead(openapi_metadata[1], r))
  /\ UNCHANGED <<state, url, df_metadata_dataset, remote, caller>>

Next ==
  \/ Construct
  \/ ListDatasets
  \/ DatasetInfo
  \/ GetDatasetDtype
  \/ SetDatasetDtype
  \/ ReadDataset

\* Before the constructor runs, for what the network serves and the caller passes.
InitWith(remotes, callers) ==
  /\ state = "Uninitialized"
  /\ openapi_metadata = None
  /\ url = None
  /\ df_metadata_dataset = None
  /\ remote \in remotes
  /\ caller \in callers
  /\ last = Call("none", <<>>, [err |-> "none", msg |-> ""])

(***************************************************************************)
(* The inputs the specifications draw from.                                *)
(***************************************************************************)
SeqsUpTo(S, n) == UNION {[1..k -> S] : k \in 0..n}

DistinctSeqsUpTo(S, n) ==
  {q \in SeqsUpTo(S, n) : \A i, j \in DOMAIN q : i # j => q[i] # q[j]}

N_Foo == <<"F", "o", "o">>
N_DataSets == <<"D", "a", "t", "a", "S", "e", "t", "s">>
N_DataSetFields == <<"D", "a", "t", "a", "S", "e", "t", "F", "i", "e", "l", "d", "s">>
N_OpenDataSets == <<"O", "p", "e", "n", "D", "a", "t", "a", "S", "e", "t", "s">>
N_DataSetVersions ==
  <<"D", "a", "t", "a", "S", "e", "t", "V", "e", "r", "s", "i", "o", "n", "s">>
N_Datasets == <<"D", "a", "t", "a", "s", "e", "t", "s">>
N_Nope == <<"N", "o", "p", "e">>

L_version == <<"v", "e", "r", "s", "i", "o", "n">>
L_distribution == <<"d", "i", "s", "t", "r", "i", "b", "u", "t", "i", "o", "n">>
L_webService == <<"w", "e", "b", "S", "e", "r", "v", "i", "c", "e">>
L_title == <<"t", "i", "t", "l", "e">>
L_shortname == <<"s", "h", "o", "r", "t", "n", "a", "m", "e">>

T_date_time == <<"d", "a", "t", "e", "-", "t", "i", "m", "e">>
T_int32 == <<"i", "n", "t", "3", "2">>
T_uint32 == <<"u", "i", "n", "t", "3", "2">>
T_integer == <<"i", "n", "t", "e", "g", "e", "r">>

Row(name, version, formats) ==
  [name |-> name, version |-> version,
   distribution |-> [i \in DOMAIN formats |-> [format |-> formats[i]]],
   webService |-> "https://www.fema.gov/api/open/v1/Dataset"]

Catalog(rows) == [columns |-> <<L_name, L_version, L_distribution, L_webService>>, rows |-> rows]

\* A catalog whose names are under another label: none contains 'name' / one does.
CatalogRenamed(label, rows) ==
  [columns |-> <<label, L_version, L_distribution, L_webService>>, rows |-> rows]

Prop(column, type, format) == [column |-> column, type |-> type, format |-> format]

Entry(name, version, properties) ==
  [key |-> dataset_w_version(name, version), properties |-> properties]

PropsA ==
  <<Prop("state", T_string, T_string),
    Prop("declarationDate", T_string, T_date_time),
    Prop("disasterNumber", T_integer, T_int32)>>

PropsB == <<Prop("disasterNumber", T_integer, T_uint32), Prop("state", T_string, T_string)>>

PropsC == <<Prop("declarationDate", T_string, P_date)>>

TypeMap(properties) ==
  [i \in DOMAIN properties |-> [column |-> properties[i].column, dtype |-> properties[i].format]]

Production(u) == [url |-> u, description |-> "Production"]

Development(u) == [url |-> u, description |-> "Development"]

GoodServers == <<Development("https://dev.fema.gov/api/open"), Production("https://www.fema.gov/api/open")>>

K_v1_DataSets == <<"/", "v", "1", "/">> \o N_DataSets
K_v2_DataSets == <<"/", "v", "2", "/">> \o N_DataSets
K_v1_DataSetFields == <<"/", "v", "1", "/">> \o N_DataSetFields
K_v1_Foo == <<"/", "v", "1", "/">> \o N_Foo

GoodPaths == <<K_v1_Foo, K_v1_DataSetFields, K_v1_DataSets>>

Doc(servers, paths, schemas) == [servers |-> servers, paths |-> paths, schemas |-> schemas]

Column(column, value) == [column |-> column, dtype |-> T_object, value |-> value]

TableGood ==
  <<Column("state", "CA"), Column("declarationDate", "2020-01-01"),
    Column("disasterNumber", "7"), Column("geometry", "POINT")>>

TableBadDate ==
  <<Column("state", "CA"), Column("declarationDate", "20-20-20"),
    Column("disasterNumber", "7"), Column("geometry", "POINT")>>

Remote(ok, doc, catalog, table) ==
  [endpoint_ok |-> ok, doc |-> doc, catalog |-> catalog, table |-> table]

Caller(metadata_formats, datasets, versions, type_maps, columns, parse_dates, file_formats) ==
  [metadata_formats |-> metadata_formats, datasets |-> datasets,
   versions |-> versions, type_maps |-> type_maps,
   columns |-> columns, parse_dates |-> parse_dates, file_formats |-> file_formats]

\* Catalogs of every shape, one document.
CatalogRows ==
  {Row(n, 1, <<"csv">>) :
     n \in {N_DataSets, N_DataSetFields, N_OpenDataSets, N_DataSetVersions, N_Foo, N_Datasets}}

CatalogRemotes ==
  {Remote(TRUE, Doc(GoodServers, GoodPaths, <<Entry(N_Foo, 1, PropsA)>>), Some(c), TableGood) :
     c \in {Catalog(rows) : rows \in SeqsUpTo(CatalogRows, MaxRows)}
           \cup {CatalogRenamed(L_title, <<Row(N_Foo, 1, <<"csv">>)>>),
                 CatalogRenamed(L_shortname, <<Row(N_Foo, 1, <<"csv">>)>>)}}

CatalogCallers ==
  {Caller({"json"}, {N_Foo, N_DataSets, N_Nope}, {1}, {TypeMap(PropsA)}, {None}, {TRUE}, {None})}

InitCatalog == InitWith(CatalogRemotes, CatalogCallers)

SpecCatalog == InitCatalog /\ [][Next]_vars

\* Documents of every schema shape, small catalogs.
SchemaRows ==
  {Row(N_Foo, 1, <<"csv">>), Row(N_Foo, 2, <<"parquet", "csv">>),
   Row(N_DataSets, 1, <<"csv">>)}

SchemaEntries ==
  {Entry(N_Foo, 1, PropsA), Entry(N_Foo, 2, PropsB), Entry(N_Foo, 2, <<>>),
   Entry(N_DataSets, 1, PropsC)}

\* components.schemas is a dict: no key twice.
SchemaDicts ==
  {q \in SeqsUpTo(SchemaEntries, MaxSchemas) :
     \A i, j \in DOMAIN q : i # j => q[i].key # q[j].key}

SchemaRemotes ==
  {Remote(TRUE, Doc(GoodServers, GoodPaths, d), Some(Catalog(rows)), TableBadDate) :
     d \in SchemaDicts, rows \in SeqsUpTo(SchemaRows, MaxSchemaRows)}

SchemaCallers ==
  {Caller({"json"}, {N_Foo, N_DataSets, N_Nope}, {1, 2},
          {TypeMap(PropsA), TypeMap(PropsB)}, {None, Some(<<"state">>)}, BOOLEAN, {None})}

InitSchema == InitWith(SchemaRemotes, SchemaCallers)

SpecSchema == InitSchema /\ [][Next]_vars

\* Distributions of every shape, one dataset.
Formats == {"geojson", "parquet", "csv", "jsona", "xlsx"}

FormatRemotes ==
  {Remote(TRUE, Doc(GoodServers, GoodPaths, <<Entry(N_Foo, 1, PropsA)>>),
          Some(Catalog(<<Row(N_Foo, 1, fs)>>)), TableGood) :
     fs \in SeqsUpTo(Formats, MaxFormats)}

FormatCallers ==
  {Caller({"json"}, {N_Foo, N_Nope}, {1}, {TypeMap(PropsA)}, {None}, {TRUE},
          {None, Some("csv"), Some("geojson"), Some("xlsx"), Some("")})}

InitFormat == InitWith(FormatRemotes, FormatCallers)

SpecFormat == InitFormat /\ [][Next]_vars

\* Documents of every servers and paths shape.
Servers ==
  {Production("https://www.fema.gov/api/open"), Production("https://beta.fema.gov/api/open"),
   Development("https://dev.fema.gov/api/open")}

PathKeys == {K_v1_DataSets, K_v2_DataSets, K_v1_DataSetFields}

CtorRemotes ==
  {Remote(ok, Doc(servers, paths, <<Entry(N_Foo, 1, PropsA)>>), c, TableGood) :
     ok \in BOOLEAN, servers \in SeqsUpTo(Servers, MaxServers),
     paths \in DistinctSeqsUpTo(PathKeys, MaxPaths),
     c \in {None, Some(Catalog(<<Row(N_Foo, 1, <<"csv">>)>>))}}

CtorCallers ==
  {Caller({"json", "yaml", "xml"}, {N_Foo, N_Nope}, {1}, {TypeMap(PropsA)}, {None}, {TRUE}, {None})}

InitCtor == InitWith(CtorRemotes, CtorCallers)

SpecCtor == InitCtor /\ [][Next]_vars

Init == InitSchema

Spec == Init /\ [][Next]_vars

(***************************************************************************)
(* Properties of list_datasets (SpecCatalog).                              *)
(***************************************************************************)
Listed == last.op = "list_datasets" /\ last.res.err = "none"

\* The names of the catalog that contain 'DataSet', and the rows that hold one.
MetadataNames(df) == {n \in {df.rows[i].name : i \in DOMAIN df.rows} : StrContains(n, P_DataSet)}

MetadataRows(df) == {i \in DOMAIN df.rows : StrContains(df.rows[i].name, P_DataSet)}

SeqSet(xs) == {xs[i] : i \in DOMAIN xs}

\* C1: for a catalog table with a name column list_datasets() returns, and what it
\* returns is strictly ascending in Python's str order (so no name is in it twice),
\* whether the 'DataSet' names were filtered out or kept with a warning.
C1_ListSortedNoDuplicates ==
  (last.op = "list_datasets" /\ HasNameColumn(df_metadata_dataset[1])) =>
    /\ last.res.err = "none"
    /\ \A i, j \in DOMAIN last.res.value[1] :
         i < j => StrLess(last.res.value[1][i], last.res.value[1][j])

\* A listing of two names or more from a catalog that holds a name twice and holds
\* its names out of order.
C1_Witness ==
  /\ Listed
  /\ Len(last.res.value[1]) >= 2
  /\ \E i, j \in DOMAIN df_metadata_dataset[1].rows :
       i < j /\ df_metadata_dataset[1].rows[i].name = df_metadata_dataset[1].rows[j].name
  /\ \E i, j \in DOMAIN df_metadata_dataset[1].rows :
       i < j /\ StrLess(df_metadata_dataset[1].rows[j].name, df_metadata_dataset[1].rows[i].name)

\* C2 as stated: the rows whose name contains 'DataSet' are counted; with at most 3
\* of them none of their names is listed, with more than 3 all of them are listed
\* and a warning names them.
C2_Original ==
  Listed =>
    IF Cardinality(MetadataRows(df_metadata_dataset[1])) <= 3
    THEN /\ SeqSet(last.res.value[1]) \cap MetadataNames(df_metadata_dataset[1]) = {}
         /\ last.res.warning = None
    ELSE /\ MetadataNames(df_metadata_dataset[1]) \subseteq SeqSet(last.res.value[1])
         /\ last.res.warning # None
         /\ SeqSet(last.res.warning[1]) = MetadataNames(df_metadata_dataset[1])

\* C2 amended: the distinct names that contain 'DataSet' are counted, not the rows;
\* with at most 3 of them none is listed and no warning is raised, with more than 3
\* all of them are listed and a warning names them; the call returns in both cases.
C2_DistinctNamesThreshold ==
  (last.op = "list_datasets" /\ HasNameColumn(df_metadata_dataset[1])) =>
    /\ last.res.err = "none"
    /\ IF Cardinality(MetadataNames(df_metadata_dataset[1])) <= 3
       THEN /\ SeqSet(last.res.value[1]) \cap MetadataNames(df_metadata_dataset[1]) = {}
            /\ last.res.warning = None
       ELSE /\ MetadataNames(df_metadata_dataset[1]) \subseteq SeqSet(last.res.value[1])
            /\ last.res.warning # None
            /\ SeqSet(last.res.warning[1]) = MetadataNames(df_metadata_dataset[1])

\* More than 3 rows hold a 'DataSet' name, but at most 3 distinct names: filtered.
C2_Witness ==
  /\ Listed
  /\ Cardinality(MetadataRows(df_metadata_dataset[1])) > 3
  /\ Cardinality(MetadataNames(df_metadata_dataset[1])) <= 3
  /\ last.res.warning = None

(***************************************************************************)
(* Properties of dataset_info and _get_dataset_dtype (SpecSchema).         *)
(***************************************************************************)
\* The rows of the catalog named n, and the entries of components.schemas under key k.
RowsNamed(df, n) == {i \in DOMAIN df.rows : df.rows[i].name = n}

EntriesKeyed(md, k) == {i \in DOMAIN md.schemas : md.schemas[i].key = k}

\* The property names of a schema entry mapped to their 'format', in declared order.
DeclaredTypes(e) ==
  [i \in DOMAIN e.properties |->
     [column |-> e.properties[i].column, dtype |-> e.properties[i].format]]

InfoCalled == last.op = "dataset_info" /\ HasNameColumn(df_metadata_dataset[1])

\* C4: dataset_info(name) raises the not-found ValueError exactly when name is not
\* once in list_datasets(); when it returns, name is once in list_datasets() and the
\* result is a catalog row named name with a 'columns' entry equal to the declared
\* types of the schema keyed v{that row's version}-{name}.
C4_InfoNotFoundOrRow ==
  InfoCalled =>
    LET name == last.args[1]
        listed == list_datasets(df_metadata_dataset[1]).value[1]
        once == Cardinality({i \in DOMAIN listed : listed[i] = name}) = 1
    IN /\ (last.res.err = "ValueError") = ~once
       /\ last.res.err = "ValueError" => last.res.msg = "dataset not found"
       /\ last.res.err = "none" =>
            \E i \in RowsNamed(df_metadata_dataset[1], name) :
              LET row == df_metadata_dataset[1].rows[i]
                  k == <<"v">> \o IntToStr(row.version) \o <<"-">> \o name
              IN /\ \A f \in DOMAIN row : last.res.value[1][f] = row[f]
                 /\ DOMAIN last.res.value[1] = DOMAIN row \cup {"columns"}
                 /\ \E e \in EntriesKeyed(openapi_metadata[1], k) :
                      last.res.value[1].columns = DeclaredTypes(openapi_metadata[1].schemas[e])

\* dataset_info returned for a name the catalog holds in two versions, with columns.
C4_Witness ==
  /\ InfoCalled
  /\ last.res.err = "none"
  /\ Cardinality(RowsNamed(df_metadata_dataset[1], last.args[1])) >= 2
  /\ \E i, j \in RowsNamed(df_metadata_dataset[1], last.args[1]) :
       df_metadata_dataset[1].rows[i].version # df_metadata_dataset[1].rows[j].version
  /\ Len(last.res.value[1].columns) >= 2

InfoOfListed ==
  /\ InfoCalled
  /\ \E i \in DOMAIN list_datasets(df_metadata_dataset[1]).value[1] :
       list_datasets(df_metadata_dataset[1]).value[1][i] = last.args[1]

\* C5 as stated: for every name list_datasets() returns, dataset_info(name) returns
\* and its 'columns' mapping is not empty.
C5_Original ==
  InfoOfListed => (last.res.err = "none" /\ last.res.value[1].columns # <<>>)

\* C5 amended: for every name list_datasets() returns, dataset_info(name) does not
\* raise the not-found error; it returns exactly when components.schemas holds the
\* key v{version}-{name} for the version of the first catalog row of that name, and
\* raises NotImplementedError otherwise; when it returns, 'columns' is not empty
\* exactly when that schema declares a property.
C5_InfoOfListedName ==
  InfoOfListed =>
    LET name == last.args[1]
        first == CHOOSE i \in RowsNamed(df_metadata_dataset[1], name) :
                   \A j \in RowsNamed(df_metadata_dataset[1], name) : i <= j
        k == <<"v">> \o IntToStr(df_metadata_dataset[1].rows[first].version)
               \o <<"-">> \o name
        es == EntriesKeyed(openapi_metadata[1], k)
    IN /\ last.res.err \in {"none", "NotImplementedError"}
       /\ (last.res.err = "none") = (es # {})
       /\ last.res.err = "none" =>
            \A e \in es :
              (last.res.value[1].columns # <<>>)
                = (openapi_metadata[1].schemas[e].properties # <<>>)

\* dataset_info returned for a listed name whose first row and last row differ in
\* version, with the schema of the last row's version not in the document.
C5_Witness ==
  /\ InfoOfListed
  /\ last.res.err = "none"
  /\ last.res.value[1].columns # <<>>
  /\ LET rs == RowsNamed(df_metadata_dataset[1], last.args[1])
         lastrow == CHOOSE i \in rs : \A j \in rs : j <= i
         k == <<"v">> \o IntToStr(df_metadata_dataset[1].rows[lastrow].version)
                \o <<"-">> \o last.args[1]
     IN EntriesKeyed(openapi_metadata[1], k) = {}

\* C6: _get_dataset_dtype(dataset, version) raises NotImplementedError when the keys
\* of components.schemas equal to v{version}-{dataset} are not exactly one; with
\* exactly one it returns that schema's property names, in declared order, each
\* mapped to its 'format' as declared.
C6_ResolveColumns ==
  last.op = "_get_dataset_dtype" =>
    LET k == <<"v">> \o IntToStr(last.args[2]) \o <<"-">> \o last.args[1]
        es == EntriesKeyed(openapi_metadata[1], k)
    IN IF Cardinality(es) # 1
       THEN last.res.err = "NotImplementedError" /\ last.res.value = None
       ELSE /\ last.res.err = "none"
            /\ \A e \in es : last.res.value[1] = DeclaredTypes(openapi_metadata[1].schemas[e])

\* A schema of two properties or more resolved from a document of two schemas.
C6_Witness ==
  /\ last.op = "_get_dataset_dtype"
  /\ last.res.err = "none"
  /\ Len(last.res.value[1]) >= 2
  /\ Len(openapi_metadata[1].schemas) >= 2
  /\ \E i \in DOMAIN last.res.value[1] : last.res.value[1][i].dtype = T_int32

(***************************************************************************)
(* Properties of _set_dataset_dtype and of the held snapshot (SpecSchema). *)
(***************************************************************************)
\* What the call asked for column c: "datetime" for a pd.to_datetime, else the dtype
\* handed to astype, else "untouched".
Asked(res, c) ==
  IF SeqHas(res.datetimes, c) THEN <<"datetime">>
  ELSE IF MapHas(res.casts, c) THEN <<"astype", MapGet(res.casts, c)>>
  ELSE <<"untouched">>

\* C7 as stated: for every column of the type map, a declared type containing 'date'
\* is parsed as a datetime when parse_dates is true and cast to 'string' when it is
\* false; otherwise one containing 'int' is cast to a nullable integer dtype in both
\* modes; otherwise the declared string is the cast target; and when the call
\* returns, the columns of the table the type map does not name are as they were.
C7_Original ==
  last.op = "_set_dataset_dtype" =>
    LET table == last.args[1]
        column_dtypes == last.args[2]
        parse_dates == last.args[3]
    IN /\ \A i \in DOMAIN column_dtypes :
            LET c == column_dtypes[i].column
                declared == column_dtypes[i].dtype
            IN IF StrContains(declared, P_date)
               THEN Asked(last.res, c)
                      = IF parse_dates THEN <<"datetime">> ELSE <<"astype", T_string>>
               ELSE IF StrContains(declared, P_int)
               THEN /\ Asked(last.res, c)[1] = "astype"
                    /\ Asked(last.res, c)[2] \in NullableIntegerDtypes
               ELSE Asked(last.res, c) = <<"astype", declared>>
       /\ last.res.err = "none" =>
            \A k \in DOMAIN table :
              ~MapHas(column_dtypes, table[k].column) => last.res.value[1][k] = table[k]

ReadCalled == last.op = "read_dataset"

\* C10: once the constructor has returned, no call changes the held metadata
\* document, production URL or catalog table, whatever it returns or raises.
C10_SnapshotHeld ==
  [][state = "Ready" =>
       /\ state' = "Ready"
       /\ openapi_metadata' = openapi_metadata
       /\ url' = url
       /\ df_metadata_dataset' = df_metadata_dataset]_vars

\* A read with parse_dates false that returned, having rewritten its type map (a
\* 'date' and an 'int' entry no longer as declared), the document still as served.
C10_Witness ==
  /\ ReadCalled
  /\ last.args[3] = FALSE
  /\ last.res.err = "none"
  /\ \E e \in DOMAIN openapi_metadata[1].schemas :
       /\ openapi_metadata[1].schemas[e].key = last.res.schema_key[1]
       /\ \E k \in DOMAIN openapi_metadata[1].schemas[e].properties :
            LET p == openapi_metadata[1].schemas[e].properties[k]
            IN /\ StrContains(p.format, P_date)
               /\ MapGet(last.res.column_dtypes[1], p.column) = T_string
  /\ openapi_metadata = Some(remote.doc)
  /\ df_metadata_dataset = remote.catalog

(***************************************************************************)
(* Properties of the format selection and the readers (SpecFormat).        *)
(***************************************************************************)
FormatPriority == <<"geojson", "parquet", "csv", "jsona">>

\* The formats the catalog publishes for the dataset that was read.
Published ==
  LET Named(r) == r.name = last.args[1]
      row == SelectSeq(df_metadata_dataset[1].rows, Named)[1]
  IN {row.distribution[i].format : i \in DOMAIN row.distribution}

Selected == ReadCalled /\ last.res.stage # "lookup"

\* C3: read_dataset goes on with the explicit file_format as given, published or
\* not; with none given and one of geojson, parquet, csv, jsona published, it goes
\* on with the first of these, in this order, that is published.
C3_FormatSelection ==
  Selected =>
    IF last.args[4] # None THEN last.res.file_format = last.args[4]
    ELSE \A i \in DOMAIN FormatPriority :
           (/\ FormatPriority[i] \in Published
            /\ \A j \in 1..(i - 1) : FormatPriority[j] \notin Published)
           => last.res.file_format = Some(FormatPriority[i])

\* No format given, geojson published after parquet: geojson is read.
C3_Witness ==
  /\ Selected
  /\ last.args[4] = None
  /\ {"geojson", "parquet"} \subseteq Published
  /\ last.res.file_format = Some("geojson")
  /\ last.res.err = "none"

\* C9: once the lookup of the dataset has succeeded, read_dataset raises the
\* unsupported-format ValueError and returns no table whenever the explicit format
\* is none of geojson, parquet, csv, jsona, and whenever no format is given and none
\* of the four is published; the error comes from the reader dispatch, after the
\* selection; with a format of the four the call does not raise it.
C9_UnsupportedFormat ==
  Selected =>
    LET four == {FormatPriority[i] : i \in DOMAIN FormatPriority}
        unsupported ==
          IF last.args[4] # None THEN last.args[4][1] \notin four
          ELSE Published \cap four = {}
    IN IF unsupported
       THEN /\ last.res.err = "ValueError"
            /\ last.res.msg = "format not supported"
            /\ last.res.value = None
            /\ last.res.stage = "read"
       ELSE last.res.stage = "coerce" /\ last.res.msg # "format not supported"

\* No format given and only a format without reader published: the read raises.
C9_Witness ==
  /\ Selected
  /\ last.args[4] = None
  /\ Published # {}
  /\ last.res.err = "ValueError"
  /\ last.res.file_format = None

(***************************************************************************)
(* Properties of the constructor (SpecCtor).                               *)
(***************************************************************************)
ProductionServers(doc) ==
  {i \in DOMAIN doc.servers : doc.servers[i].description = "Production"}

CatalogPaths(doc) == {i \in DOMAIN doc.paths : StrContains(doc.paths[i], P_DataSets)}

\* C8 as stated: the constructor reaches Ready only with exactly one 'Production'
\* server and exactly one catalog path key in the document; with a document fetched
\* and either count not one, it raises and no instance exists (the kind of the
\* exception, NotImplementedError as stated, is left open here).
C8_Original ==
  last.op = "__init__" =>
    /\ state = "Ready" =>
         /\ Cardinality(ProductionServers(remote.doc)) = 1
         /\ Cardinality(CatalogPaths(remote.doc)) = 1
    /\ (/\ openapi_metadata # None
        /\ \/ Cardinality(ProductionServers(remote.doc)) # 1
           \/ Cardinality(CatalogPaths(remote.doc)) # 1)
       => (state = "Failed" /\ last.res.err # "none")

====
